---- MODULE Spec2Model ----
(***************************************************************************)
(* The GWAS notebook (2_GWAS.ipynb) as a state machine: one action per     *)
(* code cell, run in the notebook's forward order.  The state holds the    *)
(* three input files, the notebook's global variables, the two HDF5        *)
(* handles, the calls made to limix' scan and the two result files.        *)
(*                                                                         *)
(* Conventions.  Python indices are 0-based and are kept 0-based here      *)
(* (acn_indices, SNP_indices, chr_regions); TLA+ sequences are 1-based, so *)
(* element i of an array a is a[i + 1].  A matrix is a record              *)
(* [shape |-> <<rows, cols>>, at |-> rows of cells].  A float that the     *)
(* code obtains by a true division is kept as the fraction in lowest       *)
(* terms, <<0, 0>> being NaN (numpy's 0/0).                                *)
(***************************************************************************)
EXTENDS Integers, Sequences, FiniteSets, TLC

\* Number of distinct accession identifiers the input files draw from.
MaxAcn == 3
\* Largest number of SNP rows of the genotype source.
MaxSnp == 3

VARIABLES
    pheno_file,      \* rows of the phenotype csv: [ecotypeid, cell]
    geno_file,       \* [accessions, snps, positions, chr_regions]
    kin_file,        \* [accessions, kinship]
    MAF_thrs,        \* the configured threshold, a fraction
    h5py_empty_ok,   \* whether the installed h5py accepts an empty index list
    pc,              \* the next cell to run, "done" or "error"
    err,             \* the exception that stopped the notebook ("" if none)
    pheno,           \* the DataFrame: rows [index, val]
    geno_hdf,        \* "unopened" | "open" | "closed"
    kin_hdf,         \* "unopened" | "open" | "closed"
    h5_events,       \* the opens and closes made so far, in order
    acn_genotyped, acn_indices, acn_order,
    Y, G, MAF, SNP_indices, SNPs_MAF, K,
    r, r_nc,         \* what scan returned: [pv, es]
    scans,           \* the calls made to scan: [G, Y, K]
    output_file, output_file_nc   \* <<>> until written, then <<table>>

inputs == <<pheno_file, geno_file, kin_file, MAF_thrs, h5py_empty_ok>>
handles == <<geno_hdf, kin_hdf, h5_events>>
aligned == <<acn_genotyped, acn_indices, acn_order, Y>>
filtered == <<G, MAF, SNP_indices, SNPs_MAF>>
results == <<r, r_nc, scans, output_file, output_file_nc>>
vars == <<inputs, pc, err, pheno, handles, aligned, filtered, K, results>>

----------------------------------------------------------------------------
\* Arithmetic and array helpers

Range(s) == {s[i] : i \in DOMAIN s}

Min(a, b) == IF a <= b THEN a ELSE b

RECURSIVE GCD(_, _)
GCD(a, b) == IF b = 0 THEN a ELSE GCD(b, a % b)

NaN == <<0, 0>>

IsNaN(x) == x[2] = 0

\* numpy's true division of non-negative integers (0/0 is NaN)
TrueDiv(a, b) ==
    IF b = 0 THEN NaN ELSE <<a \div GCD(a, b), b \div GCD(a, b)>>

\* x > t in place of x >= t
Greater(x, t) ==
    /\ ~IsNaN(x)
    /\ ~IsNaN(t)
    /\ x[1] * t[2] > t[1] * x[2]

\* x >= t on floats: any comparison with NaN is False
GreaterEqual(x, t) ==
    /\ ~IsNaN(x)
    /\ ~IsNaN(t)
    /\ x[1] * t[2] >= t[1] * x[2]

\* 2-D array: its shape and its rows
Mat(nr, nc, rows) == [shape |-> <<nr, nc>>, at |-> rows]

EmptyMat == Mat(0, 0, <<>>)

Transpose(m) ==
    Mat(m.shape[2], m.shape[1],
        [i \in 1..m.shape[2] |-> [j \in 1..m.shape[1] |-> m.at[j][i]]])

RECURSIVE SumSeq(_)
SumSeq(s) == IF s = <<>> THEN 0 ELSE Head(s) + SumSeq(Tail(s))

StrictlyIncreasing(s) == \A i \in 1..(Len(s) - 1) : s[i] < s[i + 1]

\* list.sort(): insertion of each element into the sorted rest
RECURSIVE InsertSorted(_, _)
InsertSorted(x, s) ==
    IF s = <<>> THEN <<x>>
    ELSE IF x <= Head(s) THEN <<x>> \o s
    ELSE <<Head(s)>> \o InsertSorted(x, Tail(s))

\* the list left as it is
NoSort(s) == s

RECURSIVE Sort(_)
Sort(s) == IF s = <<>> THEN <<>> ELSE InsertSorted(Head(s), Sort(Tail(s)))

\* acn in array: (array == acn).any()
NpIn(x, arr) == \E i \in DOMAIN arr : arr[i] = x

\* np.where(arr == x)[0]: the ascending 0-based positions of x in arr
NpWhereEq(arr, x) ==
    SelectSeq([i \in 1..Len(arr) |-> i - 1], LAMBDA p : arr[p + 1] = x)

\* np.where(mask)[0]
NpWhere(mask) ==
    SelectSeq([i \in 1..Len(mask) |-> i - 1], LAMBDA p : mask[p + 1])

\* array[indices] with a list of 0-based indices
Take(arr, idx) == [i \in 1..Len(idx) |-> arr[idx[i] + 1]]

\* h5py's check of an index list given to dataset[...]: the elements must be
\* strictly increasing; an empty list is an error in the builds that do not
\* accept it.  "" when the selection is accepted.
H5SelectError(idx) ==
    IF ~StrictlyIncreasing(idx) THEN "TypeError"
    ELSE IF idx = <<>> /\ ~h5py_empty_ok THEN "UnboundLocalError"
    ELSE ""

\* a read through a handle that is not open fails
H5ReadError(handle, idx) ==
    IF handle # "open" THEN "ValueError" ELSE H5SelectError(idx)

----------------------------------------------------------------------------
\* pandas

\* index.map(lambda x: str(int(x)).encode('UTF8'))
Encode(x) == ToString(x)

NaStrings == {"", "NA"}

\* pd.read_csv(pheno_file, index_col = 0), then the index is encoded
ReadCsv(file) ==
    [i \in 1..Len(file) |->
        [index |-> Encode(file[i].ecotypeid),
         val |-> IF file[i].cell \in NaStrings THEN "nan" ELSE file[i].cell]]

DropNa(t) == SelectSeq(t, LAMBDA row : row.val # "nan")

Index(t) == [i \in 1..Len(t) |-> t[i].index]

\* pheno.loc[labels]: for each label in turn, the rows carrying it
RECURSIVE Loc(_, _)
Loc(t, labels) ==
    IF labels = <<>> THEN <<>>
    ELSE SelectSeq(t, LAMBDA row : row.index = Head(labels))
            \o Loc(t, Tail(labels))

\* pheno.to_numpy(): one row per accession, one column
ToNumpy(t) == Mat(Len(t), 1, [i \in 1..Len(t) |-> <<t[i].val>>])

----------------------------------------------------------------------------
\* bisect.bisect (bisect_right): binary search for the insertion point
\* after any entries equal to x

RECURSIVE BisectLoop(_, _, _, _)
BisectLoop(a, x, lo, hi) ==
    IF lo < hi
    THEN LET mid == (lo + hi) \div 2
         IN IF x < a[mid + 1] THEN BisectLoop(a, x, lo, mid)
            ELSE BisectLoop(a, x, mid + 1, hi)
    ELSE lo

\* bisect_left: the insertion point before any entries equal to x
RECURSIVE BisectLeftLoop(_, _, _, _)
BisectLeftLoop(a, x, lo, hi) ==
    IF lo < hi
    THEN LET mid == (lo + hi) \div 2
         IN IF a[mid + 1] < x THEN BisectLeftLoop(a, x, mid + 1, hi)
            ELSE BisectLeftLoop(a, x, lo, mid)
    ELSE lo

BisectLeft(a, x) == BisectLeftLoop(a, x, 0, Len(a))

Bisect(a, x) == BisectLoop(a, x, 0, Len(a))

\* chr_index[:, 0]: the starts in place of the ends
Column0(regions) == [i \in 1..Len(regions) |-> regions[i][1]]

\* chr_index[:, 1]
Column1(regions) == [i \in 1..Len(regions) |-> regions[i][2]]

Chromosome(regions, snp_index) == Bisect(Column1(regions), snp_index) + 1

----------------------------------------------------------------------------
\* The input files

AcnIds == 1..MaxAcn

\* the sequences over S in which no element occurs twice
DupFreeSeqs(S) ==
    {s \in UNION {[1..n -> S] : n \in 0..Cardinality(S)} :
        \A i, j \in DOMAIN s : s[i] = s[j] => i = j}

Asc(n) == [i \in 1..n |-> i]

Desc(n) == [i \in 1..n |-> n + 1 - i]

RECURSIVE SetToSeq(_)
SetToSeq(S) ==
    IF S = {} THEN <<>>
    ELSE LET m == CHOOSE x \in S : \A y \in S : x <= y
         IN <<m>> \o SetToSeq(S \ {m})

\* the chr_regions tables of a source with m SNPs: contiguous [start, end)
\* index ranges that start at 0 and end at m, one row per chromosome
ChrRegions(m) ==
    IF m = 0 THEN {<<>>}
    ELSE {LET ends == SetToSeq(cuts \cup {m})
          IN [c \in 1..Len(ends) |->
                 <<IF c = 1 THEN 0 ELSE ends[c - 1], ends[c]>>] :
          cuts \in SUBSET (1..(m - 1))}

\* the phenotype csv: one row per id, the trait cell empty for the ids in `missing`
PhenoFile(ids, missing) ==
    [i \in 1..Len(ids) |->
        [ecotypeid |-> ids[i],
         cell |-> IF ids[i] \in missing THEN "" ELSE ToString(10 * ids[i])]]

\* the genotype hdf5: SNP row s carries allele 1 in its first ones[s] columns
GenoFile(ids, ones, regions) ==
    [accessions |-> [i \in 1..Len(ids) |-> Encode(ids[i])],
     snps |-> [s \in 1..Len(ones) |->
                 [c \in 1..Len(ids) |-> IF c <= ones[s] THEN 1 ELSE 0]],
     positions |-> [s \in 1..Len(ones) |-> 100 + 10 * s],
     chr_regions |-> regions]

\* the kinship hdf5: the entry of two accessions is their (unordered) pair
KinFile(ids) ==
    [accessions |-> [i \in 1..Len(ids) |-> Encode(ids[i])],
     kinship |-> [i \in 1..Len(ids) |->
                    [j \in 1..Len(ids) |-> {Encode(ids[i]), Encode(ids[j])}]]]

DefaultThreshold == <<1, 20>>

Thresholds == {DefaultThreshold, <<1, 2>>}

\* whether cell 3a selects no accession at all
EmptyAlignment(pf, gf) ==
    \A i \in DOMAIN pf :
        pf[i].cell \in NaStrings \/ ~NpIn(Encode(pf[i].ecotypeid), gf.accessions)

\* every SNP on a chromosome of its own
SingletonRegions(m) == [c \in 1..m |-> <<c - 1, c>>]

\* the canonical SNP data: row s carries allele 1 in its first s columns
CanonicalOnes == Asc(MaxSnp)

CanonicalRegions == SingletonRegions(MaxSnp)

\* every order of the accessions in the phenotype and kinship sources against
\* a genotype source of every length (accession ids are opaque, so the
\* genotype source's own order is fixed: descending ids), fixed SNP data
InputIs(p, g, k, t) ==
    /\ pheno_file = p
    /\ geno_file = g
    /\ kin_file = k
    /\ MAF_thrs = t

AlignmentInput ==
    \E ps \in DupFreeSeqs(AcnIds), n \in 0..MaxAcn, ks \in DupFreeSeqs(AcnIds) :
        InputIs(PhenoFile(ps, {}),
                GenoFile(Desc(n), CanonicalOnes, CanonicalRegions),
                KinFile(ks),
                DefaultThreshold)

\* every SNP matrix of the pattern above, every number of phenotyped
\* accessions, both thresholds, fixed accession orders
GenotypeInput ==
    \E m \in 0..MaxSnp, n \in 0..MaxAcn, thr \in Thresholds :
        \E ones \in [1..m -> 0..MaxAcn] :
            InputIs(PhenoFile(Asc(n), {}),
                    GenoFile(Desc(MaxAcn), ones, SingletonRegions(m)),
                    KinFile(Desc(MaxAcn)),
                    thr)

\* every chromosome table and every set of retained SNPs: two accessions,
\* both phenotyped, the SNPs of `kept` polymorphic among them
ChromosomeInput ==
    \E m \in 0..MaxSnp :
        \E regions \in ChrRegions(m), kept \in SUBSET (0..(m - 1)) :
            InputIs(PhenoFile(Asc(2), {}),
                    GenoFile(Desc(2),
                             [s \in 1..m |-> IF s - 1 \in kept THEN 1 ELSE 0],
                             regions),
                    KinFile(Desc(2)),
                    DefaultThreshold)

\* what a trait cell of the csv can hold: a number, nothing, the marker NA,
\* a word
CellKinds == {"number", "empty", "NA", "word"}

\* the phenotype csv with the trait cell of row i of kind kinds[i]
PhenoCells(ids, kinds) ==
    [i \in 1..Len(ids) |->
        [ecotypeid |-> ids[i],
         cell |-> CASE kinds[i] = "number" -> ToString(10 * ids[i])
                    [] kinds[i] = "empty" -> ""
                    [] kinds[i] = "NA" -> "NA"
                    [] kinds[i] = "word" -> "late"]]

\* missing and non-numeric trait values
MissingInput ==
    \E kinds \in [1..MaxAcn -> CellKinds] :
        InputIs(PhenoCells(Asc(MaxAcn), kinds),
                GenoFile(Desc(MaxAcn), CanonicalOnes, CanonicalRegions),
                KinFile(Desc(MaxAcn)),
                DefaultThreshold)

\* the boundary table of a source with three chromosomes of 10, 15 and 15 SNPs
ExampleRegions == <<<<0, 10>>, <<10, 25>>, <<25, 40>>>>

ExampleSnps == 0..(ExampleRegions[Len(ExampleRegions)][2] - 1)

\* that source with two accessions, both phenotyped; the SNPs of `kept` are
\* polymorphic among them (MAF 1/2), the others are not (MAF 0)
ExampleInput ==
    \E kept \in {ExampleSnps} \cup {{s} : s \in ExampleSnps}
                    \cup {{s - 1, s} : s \in ExampleSnps \ {0}} :
        InputIs(PhenoFile(Asc(2), {}),
                GenoFile(Desc(2),
                         [s \in 1..Cardinality(ExampleSnps) |->
                             IF s - 1 \in kept THEN 1 ELSE 0],
                         ExampleRegions),
                KinFile(Desc(2)),
                DefaultThreshold)

NoResult == [pv |-> <<>>, es |-> <<>>]

\* the sequences over S of at most n elements in which an element occurs twice
DupSeqs(S, n) ==
    {s \in UNION {[1..k -> S] : k \in 0..n} :
        \E i, j \in DOMAIN s : i # j /\ s[i] = s[j]}

\* an accession listed twice in the phenotype csv, in the genotype source or
\* in the kinship source, the other two sources listing every accession once
DuplicateInput ==
    \E ds \in DupSeqs(AcnIds, MaxAcn) :
        \/ \E n \in 0..MaxAcn :
              InputIs(PhenoFile(ds, {}),
                      GenoFile(Desc(n), CanonicalOnes, CanonicalRegions),
                      KinFile(Desc(MaxAcn)),
                      DefaultThreshold)
        \/ InputIs(PhenoFile(Asc(MaxAcn), {}),
                   GenoFile(ds, CanonicalOnes, CanonicalRegions),
                   KinFile(Desc(MaxAcn)),
                   DefaultThreshold)
        \/ InputIs(PhenoFile(Asc(MaxAcn), {}),
                   GenoFile(Desc(MaxAcn), CanonicalOnes, CanonicalRegions),
                   KinFile(ds),
                   DefaultThreshold)

\* the notebook before its first code cell has run
Fresh ==
    \* the build's treatment of an empty index list shows only when one occurs
    /\ h5py_empty_ok \in IF EmptyAlignment(pheno_file, geno_file) THEN BOOLEAN ELSE {TRUE}
    /\ pc = "2a"
    /\ err = ""
    /\ pheno = <<>>
    /\ geno_hdf = "unopened"
    /\ kin_hdf = "unopened"
    /\ h5_events = <<>>
    /\ acn_genotyped = <<>>
    /\ acn_indices = <<>>
    /\ acn_order = <<>>
    /\ Y = EmptyMat
    /\ G = EmptyMat
    /\ MAF = <<>>
    /\ SNP_indices = <<>>
    /\ SNPs_MAF = <<>>
    /\ K = EmptyMat
    /\ r = NoResult
    /\ r_nc = NoResult
    /\ scans = <<>>
    /\ output_file = <<>>
    /\ output_file_nc = <<>>

Init ==
    /\ AlignmentInput \/ GenotypeInput \/ ChromosomeInput \/ MissingInput
          \/ ExampleInput
    /\ Fresh

\* the notebook started on files that list an accession twice
InitDup == DuplicateInput /\ Fresh

----------------------------------------------------------------------------
\* Cells 2a-2c: load the data

Cell2a_load ==
    /\ pc = "2a"
    /\ pheno' = ReadCsv(pheno_file)
    /\ pc' = "2a_dropna"
    /\ UNCHANGED <<inputs, err, handles, aligned, filtered, K, results>>

Cell2a_dropna ==
    /\ pc = "2a_dropna"
    /\ pheno' = DropNa(pheno)
    /\ pc' = "2b"
    /\ UNCHANGED <<inputs, err, handles, aligned, filtered, K, results>>

Cell2b ==
    /\ pc = "2b"
    /\ geno_hdf' = "open"
    /\ h5_events' = Append(h5_events, <<"open", "geno">>)
    /\ pc' = "2c"
    /\ UNCHANGED <<inputs, err, pheno, kin_hdf, aligned, filtered, K, results>>

Cell2c ==
    /\ pc = "2c"
    /\ kin_hdf' = "open"
    /\ h5_events' = Append(h5_events, <<"open", "kin">>)
    /\ pc' = "3a"
    /\ UNCHANGED <<inputs, err, pheno, geno_hdf, aligned, filtered, K, results>>

----------------------------------------------------------------------------
\* Cell 3a: the phenotype matrix Y

\* [np.where(accessions == acn)[0][0] for acn in pheno.index], then .sort()
SortedPositions(accessions, index) ==
    Sort([i \in 1..Len(index) |-> NpWhereEq(accessions, index[i])[1]])

\* an accession of the index that the array does not hold: [0][0] fails
PositionError(accessions, index) ==
    IF \E i \in DOMAIN index : ~NpIn(index[i], accessions) THEN "IndexError"
    ELSE ""

Cell3a ==
    /\ pc = "3a"
    /\ LET genotyped == SelectSeq(Index(pheno),
                                  LAMBDA acn : NpIn(acn, geno_file.accessions))
           pheno1 == Loc(pheno, genotyped)
           indices == SortedPositions(geno_file.accessions, Index(pheno1))
           e == H5ReadError(geno_hdf, indices)
           order == Take(geno_file.accessions, indices)
           pheno2 == Loc(pheno1, order)
       IN /\ acn_genotyped' = genotyped
          /\ acn_indices' = indices
          /\ IF e # ""
             THEN /\ pheno' = pheno1
                  /\ pc' = "error"
                  /\ err' = e
                  /\ UNCHANGED <<acn_order, Y>>
             ELSE /\ acn_order' = order
                  /\ pheno' = pheno2
                  /\ Y' = ToNumpy(pheno2)
                  /\ pc' = "3b"
                  /\ UNCHANGED err
    /\ UNCHANGED <<inputs, handles, filtered, K, results>>

----------------------------------------------------------------------------
\* Cell 3b: the genotype matrix G

\* G = geno_hdf['snps'][:, acn_indices]
Cell3b_subset ==
    /\ pc = "3b"
    /\ LET e == H5ReadError(geno_hdf, acn_indices)
       IN IF e # ""
          THEN /\ pc' = "error"
               /\ err' = e
               /\ UNCHANGED G
          ELSE /\ G' = Mat(Len(geno_file.snps), Len(acn_indices),
                           [s \in 1..Len(geno_file.snps) |->
                              [i \in 1..Len(acn_indices) |->
                                 geno_file.snps[s][acn_indices[i] + 1]]])
               /\ pc' = "3b_maf"
               /\ UNCHANGED err
    /\ UNCHANGED <<inputs, pheno, handles, aligned, MAF, SNP_indices, SNPs_MAF,
                   K, results>>

\* G.shape[1]: the number of columns the allele counts are taken over
AlleleTotal(g) == g.shape[2]

\* AC1, AC0, MAC and MAF of every SNP row of g
MinorAlleleFrequency(g) ==
    [s \in 1..g.shape[1] |->
        LET AC1 == SumSeq(g.at[s])
            AC0 == AlleleTotal(g) - AC1
            MAC == Min(AC0, AC1)
        IN TrueDiv(MAC, AlleleTotal(g))]

\* MAF >= MAF_thrs, one boolean per SNP row
AboveThreshold(maf, thrs) ==
    [s \in 1..Len(maf) |-> GreaterEqual(maf[s], thrs)]

\* np.where(MAF >= MAF_thrs)[0]
SelectSNPs(maf, thrs) == NpWhere(AboveThreshold(maf, thrs))

\* G[SNP_indices, :]
TakeRows(g, idx) ==
    Mat(Len(idx), g.shape[2],
        [i \in 1..Len(idx) |-> [j \in 1..g.shape[2] |-> g.at[idx[i] + 1][j]]])

Cell3b_maf ==
    /\ pc = "3b_maf"
    /\ LET maf == MinorAlleleFrequency(G)
           indices == SelectSNPs(maf, MAF_thrs)
       IN /\ MAF' = maf
          /\ SNP_indices' = indices
          /\ SNPs_MAF' = Take(maf, indices)
          /\ G' = Transpose(TakeRows(G, indices))
    /\ geno_hdf' = "closed"
    /\ h5_events' = Append(h5_events, <<"close", "geno">>)
    /\ pc' = "3c"
    /\ UNCHANGED <<inputs, err, pheno, kin_hdf, aligned, K, results>>

----------------------------------------------------------------------------
\* Cell 3c: the kinship matrix K

\* the leading block of as many rows and columns as there are indices
KinshipLeading(kinship, idx) ==
    Mat(Len(idx), Len(idx),
        [i \in 1..Len(idx) |-> [j \in 1..Len(idx) |-> kinship[i][j]]])

\* kin_hdf['kinship'][acn_indices, :][:, acn_indices]
KinshipSubset(kinship, idx) ==
    Mat(Len(idx), Len(idx),
        [i \in 1..Len(idx) |-> [j \in 1..Len(idx) |-> kinship[idx[i] + 1][idx[j] + 1]]])

\* the accessions that the kinship source does not hold passed over
Cell3c_Skipping ==
    /\ pc = "3c"
    /\ LET present == SelectSeq(Index(pheno),
                                LAMBDA acn : NpIn(acn, kin_file.accessions))
           indices == SortedPositions(kin_file.accessions, present)
           e2 == H5ReadError(kin_hdf, indices)
       IN /\ acn_indices' = indices
          /\ IF e2 # ""
             THEN /\ pc' = "error"
                  /\ err' = e2
                  /\ UNCHANGED <<K, handles>>
             ELSE /\ K' = KinshipSubset(kin_file.kinship, indices)
                  /\ kin_hdf' = "closed"
                  /\ h5_events' = Append(h5_events, <<"close", "kin">>)
                  /\ pc' = "5a"
                  /\ UNCHANGED <<err, geno_hdf>>
    /\ UNCHANGED <<inputs, pheno, acn_genotyped, acn_order, Y, filtered, results>>

Cell3c ==
    /\ pc = "3c"
    /\ LET e1 == PositionError(kin_file.accessions, Index(pheno))
       IN IF e1 # ""
          THEN /\ pc' = "error"
               /\ err' = e1
               /\ UNCHANGED <<acn_indices, K, handles>>
          ELSE LET indices == SortedPositions(kin_file.accessions, Index(pheno))
                   e2 == H5ReadError(kin_hdf, indices)
               IN /\ acn_indices' = indices
                  /\ IF e2 # ""
                     THEN /\ pc' = "error"
                          /\ err' = e2
                          /\ UNCHANGED <<K, handles>>
                     ELSE /\ K' = KinshipSubset(kin_file.kinship, indices)
                          /\ kin_hdf' = "closed"
                          /\ h5_events' = Append(h5_events, <<"close", "kin">>)
                          /\ pc' = "5a"
                          /\ UNCHANGED <<err, geno_hdf>>
    /\ UNCHANGED <<inputs, pheno, acn_genotyped, acn_order, Y, filtered, results>>

----------------------------------------------------------------------------
\* Cells 5a and 5c: limix' scan, an external call.  It fails, or returns a
\* list of p-values and a list of effect sizes whose lengths are its own.

RunnerLens(m) ==
    {<<m, m>>, <<m - 1, m>>, <<m, m - 1>>, <<m, m + 1>>} \cap (Nat \X Nat)

ScanOutcomes(m, tag) ==
    {[raised |-> TRUE, pv |-> <<>>, es |-> <<>>]} \cup
    {[raised |-> FALSE,
      pv |-> [i \in 1..len[1] |-> <<"pv20", tag, i>>],
      es |-> [i \in 1..len[2] |-> <<"effsize", tag, i>>]] : len \in RunnerLens(m)}

\* r = scan(G, Y, K = K, lik = 'normal', M = None, verbose = True)
Cell5a ==
    /\ pc = "5a"
    /\ scans' = Append(scans, [G |-> G, Y |-> Y, K |-> <<K>>])
    /\ \E out \in ScanOutcomes(G.shape[2], "K") :
          IF out.raised
          THEN /\ pc' = "error"
               /\ err' = "ScanError"
               /\ UNCHANGED r
          ELSE /\ r' = [pv |-> out.pv, es |-> out.es]
               /\ pc' = "5b"
               /\ UNCHANGED err
    /\ UNCHANGED <<inputs, pheno, handles, aligned, filtered, K, r_nc,
                   output_file, output_file_nc>>

\* r_nc = scan(G, Y, lik="normal", M=None, verbose=True)
Cell5c ==
    /\ pc = "5c"
    /\ scans' = Append(scans, [G |-> G, Y |-> Y, K |-> <<>>])
    /\ \E out \in ScanOutcomes(G.shape[2], "noK") :
          IF out.raised
          THEN /\ pc' = "error"
               /\ err' = "ScanError"
               /\ UNCHANGED r_nc
          ELSE /\ r_nc' = [pv |-> out.pv, es |-> out.es]
               /\ pc' = "5d"
               /\ UNCHANGED err
    /\ UNCHANGED <<inputs, pheno, handles, aligned, filtered, K, r,
                   output_file, output_file_nc>>

----------------------------------------------------------------------------
\* Cells 5b and 5d: the result tables

\* maf and pvalue exchanged
ResultColumnsSwapped == <<"chr", "pos", "maf", "pvalue", "GVE">>

ResultColumns == <<"chr", "pos", "pvalue", "maf", "GVE">>

\* list(zip(a, b, c, d, e)): as many tuples as the shortest list has elements
Zip5(a, b, c, d, e) ==
    [i \in 1..Min(Len(a), Min(Len(b), Min(Len(c), Min(Len(d), Len(e))))) |->
        <<a[i], b[i], c[i], d[i], e[i]>>]

\* the positions looked up at the row number in place of the SNP index
GwasResultsByRow(res) ==
    [columns |-> ResultColumns,
     index |-> FALSE,
     rows |-> Zip5([i \in 1..Len(SNP_indices) |->
                       Chromosome(geno_file.chr_regions, SNP_indices[i])],
                   [i \in 1..Len(SNP_indices) |-> geno_file.positions[i]],
                   res.pv, SNPs_MAF, res.es)]

\* the DataFrame written by to_csv(..., index = False)
GwasResults(res) ==
    LET chr_index == geno_file.chr_regions
        chromosomes == [i \in 1..Len(SNP_indices) |->
                           Chromosome(chr_index, SNP_indices[i])]
        positions_all == geno_file.positions
        positions == [i \in 1..Len(SNP_indices) |->
                         positions_all[SNP_indices[i] + 1]]
        mafs == SNPs_MAF
        pvalues == res.pv
        effsizes == res.es
    IN [columns |-> ResultColumns,
        index |-> FALSE,
        rows |-> Zip5(chromosomes, positions, pvalues, mafs, effsizes)]

Reopened == <<<<"open", "geno">>, <<"close", "geno">>>>

Cell5b ==
    /\ pc = "5b"
    /\ output_file' = <<GwasResults(r)>>
    /\ geno_hdf' = "closed"
    /\ h5_events' = h5_events \o Reopened
    /\ pc' = "5c"
    /\ UNCHANGED <<inputs, err, pheno, kin_hdf, aligned, filtered, K, r, r_nc,
                   scans, output_file_nc>>

\* the second table written with the MAF of every SNP row, not of the retained
Cell5d_UnfilteredMaf ==
    /\ pc = "5d"
    /\ output_file_nc' =
          <<[GwasResults(r_nc) EXCEPT
                !.rows = Zip5([i \in 1..Len(SNP_indices) |->
                                  Chromosome(geno_file.chr_regions, SNP_indices[i])],
                              [i \in 1..Len(SNP_indices) |->
                                  geno_file.positions[SNP_indices[i] + 1]],
                              r_nc.pv, MAF, r_nc.es)]>>
    /\ geno_hdf' = "closed"
    /\ h5_events' = h5_events \o Reopened
    /\ pc' = "done"
    /\ UNCHANGED <<inputs, err, pheno, kin_hdf, aligned, filtered, K, r, r_nc,
                   scans, output_file>>

Cell5d ==
    /\ pc = "5d"
    /\ output_file_nc' = <<GwasResults(r_nc)>>
    /\ geno_hdf' = "closed"
    /\ h5_events' = h5_events \o Reopened
    /\ pc' = "done"
    /\ UNCHANGED <<inputs, err, pheno, kin_hdf, aligned, filtered, K, r, r_nc,
                   scans, output_file>>

----------------------------------------------------------------------------

Next ==
    \/ Cell2a_load
    \/ Cell2a_dropna
    \/ Cell2b
    \/ Cell2c
    \/ Cell3a
    \/ Cell3b_subset
    \/ Cell3b_maf
    \/ Cell3c
    \/ Cell5a
    \/ Cell5b
    \/ Cell5c
    \/ Cell5d

Spec == Init /\ [][Next]_vars

SpecDup == InitDup /\ [][Next]_vars

----------------------------------------------------------------------------
\* Notions the properties are stated with, taken from the input files alone

\* the accessions with a trait value in the phenotype file
Phenotyped ==
    {Encode(pheno_file[i].ecotypeid) :
        i \in {j \in DOMAIN pheno_file : pheno_file[j].cell \notin NaStrings}}

Genotyped == Range(geno_file.accessions)

\* the 0-based position of accession a in the genotype / kinship source
GenoPos(a) ==
    CHOOSE p \in 0..(Len(geno_file.accessions) - 1) : geno_file.accessions[p + 1] = a

\* the trait cell of accession a in the phenotype file
TraitOf(a) ==
    LET i == CHOOSE j \in DOMAIN pheno_file : Encode(pheno_file[j].ecotypeid) = a
    IN pheno_file[i].cell

\* the number of aligned accessions whose call at SNP s (0-based) is 1
OnesAmongAligned(s) ==
    Cardinality({a \in Phenotyped \cap Genotyped :
                    geno_file.snps[s + 1][GenoPos(a) + 1] = 1})

\* the chromosome (1-indexed) whose [start, end) range holds SNP index s
RegionOf(regions, s) ==
    CHOOSE c \in 1..Len(regions) : regions[c][1] <= s /\ s < regions[c][2]

\* the cells that have run
After3a == pc \in {"3b", "3b_maf", "3c", "5a", "5b", "5c", "5d", "done"}
After3b == pc \in {"3c", "5a", "5b", "5c", "5d", "done"}
After3c == pc \in {"5a", "5b", "5c", "5d", "done"}

----------------------------------------------------------------------------
\* C1: after cells 3a, 3b and 3c, Y, G and K have the same number N of rows
\* and, for every i, row i of Y, row i of G and row/column i of K belong to
\* the same accession (the i-th label of the phenotype table), whatever the
\* order of the accessions in the kinship source.
C1_RowAligned ==
    After3c =>
        LET N == Len(pheno)
        IN /\ Y.shape[1] = N
           /\ G.shape[1] = N
           /\ K.shape = <<N, N>>
           /\ \A i \in 1..N :
                LET a == pheno[i].index
                IN /\ Y.at[i][1] = TraitOf(a)
                   /\ G.at[i] = [j \in 1..Len(SNP_indices) |->
                                   geno_file.snps[SNP_indices[j] + 1][GenoPos(a) + 1]]
                   /\ \A j \in 1..N : K.at[i][j] = {a, pheno[j].index}

\* C2: acn_order is the subsequence of the genotype source's accessions that
\* are phenotyped, in the genotype source's order; it has no repetition and
\* |P \cap G_all| elements, and acn_indices is the strictly increasing list of
\* their positions.  The aligner raises only on an empty intersection.
C2_GenotypeOrder ==
    /\ pc \in {"3b", "3b_maf", "3c"} =>
        /\ acn_order = SelectSeq(geno_file.accessions, LAMBDA a : a \in Phenotyped)
        /\ Range(acn_order) \subseteq Phenotyped \cap Genotyped
        /\ Len(acn_order) = Cardinality(Phenotyped \cap Genotyped)
        /\ \A i, j \in DOMAIN acn_order : acn_order[i] = acn_order[j] => i = j
        /\ Len(acn_indices) = Len(acn_order)
        /\ StrictlyIncreasing(acn_indices)
        /\ \A i \in DOMAIN acn_indices :
              geno_file.accessions[acn_indices[i] + 1] = acn_order[i]
        /\ Index(pheno) = acn_order
    /\ err # "TypeError"
    /\ err = "UnboundLocalError" => Phenotyped \cap Genotyped = {}

\* two or more aligned accessions whose phenotype order is not the genotype
\* order, and a phenotyped accession that is not genotyped
C2_Witness ==
    /\ pc = "3b"
    /\ Len(acn_order) >= 2
    /\ acn_order # acn_genotyped
    /\ Phenotyped \ Genotyped # {}

\* C3: after the filter, the MAF of every SNP row is min(k, N - k)/N, with N
\* the number of aligned accessions and k the number of them whose call is
\* 1; it is a number in [0, 0.5], and 0 for an all-0 and for an all-1 row.
\* (Stated for sources that hold accessions.)
C3_MafFormula ==
    (After3b /\ Phenotyped # {} /\ Genotyped # {}) =>
        LET N == Cardinality(Phenotyped \cap Genotyped)
        IN /\ Len(MAF) = Len(geno_file.snps)
           /\ \A s \in 0..(Len(MAF) - 1) :
                LET k == OnesAmongAligned(s)
                    maf == MAF[s + 1]
                IN /\ maf[2] > 0
                   /\ maf[1] * N = Min(k, N - k) * maf[2]
                   /\ 0 <= maf[1] /\ 2 * maf[1] <= maf[2]
                   /\ (k = 0 \/ k = N) => maf = <<0, 1>>

\* the same for a non-empty alignment, where the quotient is defined; on an
\* empty one every MAF is NaN
MafFormulaNonEmpty ==
    After3b =>
        LET N == Cardinality(Phenotyped \cap Genotyped)
        IN /\ Len(MAF) = Len(geno_file.snps)
           /\ \A s \in 0..(Len(MAF) - 1) :
                LET k == OnesAmongAligned(s)
                    maf == MAF[s + 1]
                IN IF N = 0 THEN IsNaN(maf)
                   ELSE /\ maf[2] > 0
                        /\ maf[1] * N = Min(k, N - k) * maf[2]
                        /\ 0 <= maf[1] /\ 2 * maf[1] <= maf[2]
                        /\ (k = 0 \/ k = N) => maf = <<0, 1>>

\* C4: SNP_indices is the strictly increasing list of exactly the SNP rows
\* whose MAF is at least the threshold (equality keeps the row); SNPs_MAF and
\* the columns of G follow the same order.
C4_Retained ==
    After3b =>
        /\ StrictlyIncreasing(SNP_indices)
        /\ Range(SNP_indices) =
              {s \in 0..(Len(MAF) - 1) :
                  /\ MAF[s + 1][2] # 0
                  /\ MAF[s + 1][1] * MAF_thrs[2] >= MAF_thrs[1] * MAF[s + 1][2]}
        /\ Len(SNPs_MAF) = Len(SNP_indices)
        /\ \A i \in DOMAIN SNP_indices : SNPs_MAF[i] = MAF[SNP_indices[i] + 1]
        /\ G.shape = <<Len(acn_order), Len(SNP_indices)>>
        /\ \A i \in 1..G.shape[1] : \A j \in 1..G.shape[2] :
              G.at[i][j] = geno_file.snps[SNP_indices[j] + 1][GenoPos(acn_order[i]) + 1]

\* a row whose MAF equals the threshold is kept, an earlier row is dropped
\* and two rows survive
C4_Witness ==
    /\ pc = "3c"
    /\ Len(SNP_indices) >= 2
    /\ SNP_indices[1] > 0
    /\ \E i \in DOMAIN SNPs_MAF : SNPs_MAF[i] = MAF_thrs
    /\ \E s \in DOMAIN MAF : ~GreaterEqual(MAF[s], MAF_thrs)

----------------------------------------------------------------------------
\* The result tables

\* the tables written so far
Written == output_file \o output_file_nc

Boundary == Column1(geno_file.chr_regions)

\* C5 as stated: the chromosome written for retained SNP s is the smallest c
\* with s <= boundary[c]
C5_AtMostBoundary ==
    \A t \in DOMAIN Written : \A i \in DOMAIN Written[t].rows :
        LET s == SNP_indices[i]
            chr == Written[t].rows[i][1]
        IN /\ chr \in DOMAIN Boundary
           /\ s <= Boundary[chr]
           /\ \A c \in 1..(chr - 1) : ~(s <= Boundary[c])

\* C5, amended: the chromosome written for retained SNP s is the smallest c
\* with s < boundary[c]; an index equal to a boundary value is on the next
\* chromosome
C5_BelowBoundary ==
    \A t \in DOMAIN Written : \A i \in DOMAIN Written[t].rows :
        LET s == SNP_indices[i]
            chr == Written[t].rows[i][1]
        IN /\ chr \in DOMAIN Boundary
           /\ s < Boundary[chr]
           /\ \A c \in 1..(chr - 1) : ~(s < Boundary[c])

\* a written SNP whose index is a boundary value
C5_Witness ==
    \E t \in DOMAIN Written : \E i \in DOMAIN Written[t].rows :
        \E c \in DOMAIN Boundary : SNP_indices[i] = Boundary[c]

\* C6: with contiguous [start, end) rows, a retained SNP in [start_k, end_k)
\* is written with chromosome k, every chromosome written is one of the
\* table's, and the table [[0,10],[10,25],[25,40]] puts index 0 on chromosome
\* 1, index 12 on chromosome 2 and index 39 on chromosome 3.
C6_RangeOfChromosome ==
    \A t \in DOMAIN Written : \A i \in DOMAIN Written[t].rows :
        LET s == SNP_indices[i]
            chr == Written[t].rows[i][1]
            regions == geno_file.chr_regions
        IN /\ chr \in 1..Len(regions)
           /\ \A k \in 1..Len(regions) :
                 (regions[k][1] <= s /\ s < regions[k][2]) => chr = k
           /\ regions = ExampleRegions =>
                 /\ s = 0 => chr = 1
                 /\ s = 12 => chr = 2
                 /\ s = 39 => chr = 3

\* both tables of the example source written, indices 0, 12 and 39 among them
C6_Witness ==
    /\ pc = "done"
    /\ geno_file.chr_regions = ExampleRegions
    /\ \A s \in {0, 12, 39} :
          \E i \in DOMAIN output_file_nc[1].rows : SNP_indices[i] = s

\* the row of retained SNP number i, with p-value pv and effect size es
RowOf(i, pv, es) ==
    LET s == SNP_indices[i]
    IN <<RegionOf(geno_file.chr_regions, s), geno_file.positions[s + 1],
         pv, MAF[s + 1], es>>

\* whether table t holds the first n retained SNPs with the values of res
HoldsRows(t, n, res) ==
    /\ Len(t.rows) = n
    /\ \A i \in 1..n : t.rows[i] = RowOf(i, res.pv[i], res.es[i])

ChrPosMaf(t) == [i \in 1..Len(t.rows) |-> <<t.rows[i][1], t.rows[i][2], t.rows[i][4]>>]

C9_EffectSizeHeader ==
    \A t \in DOMAIN Written :
        /\ Written[t].columns = <<"chr", "pos", "pvalue", "maf", "effect_size">>
        /\ ~Written[t].index

\* C9, amended: the header is chr, pos, pvalue, maf, GVE, in that order, and
\* there is no index column
C9_GveHeader ==
    \A t \in DOMAIN Written :
        /\ Written[t].columns = <<"chr", "pos", "pvalue", "maf", "GVE">>
        /\ ~Written[t].index

C9_Witness == Len(Written) = 2 /\ Len(Written[1].rows) >= 1

\* C10: with no phenotyped accession in the genotype source (both sources
\* holding accessions), scan is never called and neither table is written
C10_EmptyAborts ==
    (Phenotyped # {} /\ Genotyped # {} /\ Phenotyped \cap Genotyped = {}) =>
        /\ scans = <<>>
        /\ output_file = <<>>
        /\ output_file_nc = <<>>

----------------------------------------------------------------------------
\* Duplicate accessions

\* whether an element occurs twice in the list
HasDuplicate(s) == \E i, j \in DOMAIN s : i # j /\ s[i] = s[j]

\* an accession listed twice in one of the three sources
Duplicated ==
    \/ HasDuplicate([i \in DOMAIN pheno_file |-> pheno_file[i].ecotypeid])
    \/ HasDuplicate(geno_file.accessions)
    \/ HasDuplicate(kin_file.accessions)

\* C11: when an accession is listed twice in the phenotype table, in the
\* genotype source or in the kinship source, the notebook stops with an
\* error: K is never built from such sources, scan is never called and no
\* table is written.  (Stated for sources that share an accession.)
C11_DuplicatesRejected ==
    (Duplicated /\ Phenotyped \cap Genotyped # {}) =>
        /\ ~After3c
        /\ scans = <<>>
        /\ output_file = <<>>
        /\ output_file_nc = <<>>

----------------------------------------------------------------------------
\* No SNP retained

----------------------------------------------------------------------------
\* The phenotype loader

\* a trait cell that reads as a number
Numeric(cell) == cell \in {ToString(v) : v \in 0..(10 * MaxAcn)}

\* cell 2a has run and cell 3a has not yet subset the table
Loaded == pc \in {"2b", "2c", "3a"}

\* C13: the table the loader hands on holds exactly the rows of the csv whose
\* trait cell is a number, in the csv's order, and the loader raises nothing.
C13_NumericRowsOnly ==
    Loaded =>
        /\ pheno = SelectSeq(ReadCsv(pheno_file), LAMBDA row : Numeric(row.val))
        /\ err = ""

\* the rows with an empty or NA cell are removed, every other row is kept
MissingRowsDropped ==
    Loaded =>
        /\ pheno = SelectSeq(ReadCsv(pheno_file),
                             LAMBDA row : row.val \in {"late"} \/ Numeric(row.val))
        /\ \A i \in DOMAIN pheno_file :
              pheno_file[i].cell \in {"", "NA"} =>
                  ~NpIn(Encode(pheno_file[i].ecotypeid), Index(pheno))
        /\ err = ""

----------------------------------------------------------------------------
\* The HDF5 handles

\* the opens and closes of a run of every cell, in order
ForwardOrder ==
    <<<<"open", "geno">>, <<"open", "kin">>, <<"close", "geno">>,
      <<"close", "kin">>>> \o Reopened \o Reopened

\* the notebook has stopped, at its end or on an exception
Stopped == pc \in {"done", "error"}

\* C14: every open of the genotype or kinship source is followed by a close
\* of that handle on every path, the paths that end in an exception included
\* (sources that share an accession): no handle is open when the notebook
\* has stopped, no read is made through a closed handle, and a run of every
\* cell opens and closes the handles in the forward order.
C14_HandlesReleased ==
    Phenotyped \cap Genotyped # {} =>
        /\ Stopped => (geno_hdf # "open" /\ kin_hdf # "open")
        /\ err # "ValueError"
        /\ pc = "done" => h5_events = ForwardOrder

\* the same without the paths that end in an exception
HandlesReleasedAtEnd ==
    /\ pc = "done" => /\ geno_hdf = "closed"
                      /\ kin_hdf = "closed"
                      /\ h5_events = ForwardOrder
    /\ err # "ValueError"
    /\ err = "ScanError" => (geno_hdf = "closed" /\ kin_hdf = "closed")

----------------------------------------------------------------------------
\* The order of K

\* the accessions of Y and G: phenotyped and genotyped
Aligned == Phenotyped \cap Genotyped

\* the 0-based position of accession a in the kinship source
KinPos(a) ==
    CHOOSE p \in 0..(Len(kin_file.accessions) - 1) : kin_file.accessions[p + 1] = a

\* the aligned accessions in the order of the kinship source
KinOrder == SelectSeq(kin_file.accessions, LAMBDA a : a \in Aligned)

\* the aligned accessions come in the same relative order in the kinship
\* source as in the genotype source
SameRelativeOrder ==
    \A a, b \in Aligned : (KinPos(a) < KinPos(b)) <=> (GenoPos(a) < GenoPos(b))

----------------------------------------------------------------------------
\* An aligned accession that the kinship source does not hold

MissingFromKinship == \E a \in Aligned : ~NpIn(a, kin_file.accessions)

\* C16: when an aligned accession is absent from the kinship source, cell 3c
\* stops with the IndexError of the position lookup: no K is built, scan is
\* never called, no table is written, and the notebook stops with the
\* kinship handle open and the genotype handle closed.
C16_KinshipLookupAborts ==
    MissingFromKinship =>
        /\ ~After3c
        /\ K = EmptyMat
        /\ scans = <<>>
        /\ output_file = <<>>
        /\ output_file_nc = <<>>
        /\ Stopped =>
              /\ pc = "error"
              /\ err = "IndexError"
              /\ kin_hdf = "open"
              /\ geno_hdf = "closed"
              /\ h5_events = <<<<"open", "geno">>, <<"open", "kin">>,
                               <<"close", "geno">>>>

\* cell 3c stopped on a kinship source that holds one aligned accession and
\* lacks another
C16_Witness ==
    /\ pc = "error"
    /\ err = "IndexError"
    /\ kin_hdf = "open"
    /\ \E a \in Aligned : NpIn(a, kin_file.accessions)
    /\ MissingFromKinship

====
